---- MODULE Spec2Model ----
(***************************************************************************)
(* Model of the character co-occurrence extractor listed in                *)
(* src/chc5904.py (lines 178-233): the text is split into sentences, each  *)
(* sentence is tokenized, the registered characters present in the token   *)
(* window are found, every unordered pair of present characters is added   *)
(* once per sentence to the interaction list, the list is counted and the  *)
(* counts are written as CSV rows.                                         *)
(*                                                                         *)
(* A string is a sequence of code points (naturals); Python's string       *)
(* comparison is the lexicographic order of those sequences.               *)
(***************************************************************************)
EXTENDS Integers, Sequences, FiniteSets, TLC

VARIABLES
    text,                 \* the text read from the input file
    character_variations, \* the registry: a sequence (dict order) of entries
    pc,                   \* position of the script
    sentences,            \* result of re.split
    idx,                  \* 1-based position of the for loop over sentences
    present_characters,   \* last value of present_characters
    sorted_pairs,         \* last value of sorted_pairs (module-level name)
    interactions,         \* the list of pairs
    interaction_counts,   \* Counter(interactions), in insertion order
    csvfile,              \* rows written by this run's csv writer
    run,                  \* number of the current execution of the script
    prev_rows             \* set of edge rows the previous execution wrote

vars == <<text, character_variations, pc, sentences, idx,
          present_characters, sorted_pairs, interactions, interaction_counts,
          csvfile, run, prev_rows>>

----------------------------------------------------------------------------
(* Bounds *)

MaxLen == 4

MaxRuns == 2

----------------------------------------------------------------------------
(* Code points *)

FullStop == 12290

ExclamationMark == 65281

QuestionMark == 65311

Delimiters == {FullStop, ExclamationMark, QuestionMark}

\* Characters of the example texts: jia, yi, bing, ding.
Ch == [jia |-> 30002, yi |-> 20057, bing |-> 19993, ding |-> 19969]

EmptyString == <<>>

Alphabet == {Ch.jia, Ch.yi, Ch.bing, FullStop, ExclamationMark}

RECURSIVE StringsUpTo(_)
StringsUpTo(n) ==
    IF n = 0 THEN {<<>>}
    ELSE LET shorter == StringsUpTo(n - 1)
         IN  shorter \cup {Append(s, c) : s \in {t \in shorter : Len(t) = n - 1},
                                          c \in Alphabet}

Texts == StringsUpTo(MaxLen)

Entry(name, variations) == [name |-> name, variations |-> variations]

\* one alias per character
RegPlain ==
    << Entry(<<Ch.jia>>, << <<Ch.jia>> >>),
       Entry(<<Ch.yi>>, << <<Ch.yi>> >>),
       Entry(<<Ch.bing>>, << <<Ch.bing>> >>) >>

\* several aliases, a two-character alias, aliases shared by two characters
RegAlias ==
    << Entry(<<Ch.jia, Ch.yi>>, << <<Ch.jia, Ch.yi>>, <<Ch.yi>> >>),
       Entry(<<Ch.bing>>, << <<Ch.bing>>, <<Ch.yi>> >>),
       Entry(<<Ch.jia>>, << <<Ch.jia>>, <<Ch.bing>> >>) >>

\* empty alias strings and an empty alias list
RegDegenerate ==
    << Entry(<<Ch.jia>>, << <<Ch.jia>>, EmptyString >>),
       Entry(<<Ch.yi>>, << EmptyString, EmptyString >>),
       Entry(<<Ch.ding>>, << >>),
       Entry(<<Ch.bing>>, << <<Ch.bing>> >>) >>

Registries == {<< >>, RegPlain, RegAlias, RegDegenerate}

\* the words of the tokenizer's dictionary
jieba_dict == {<<Ch.jia, Ch.yi>>}

Names(registry) == {registry[i].name : i \in DOMAIN registry}

----------------------------------------------------------------------------
(* Pure functions of the script *)

Max(S) == CHOOSE x \in S : \A y \in S : y <= x

\* Python's str < str
RECURSIVE LexLess(_, _)
LexLess(s, t) ==
    IF t = <<>> THEN FALSE
    ELSE IF s = <<>> THEN TRUE
    ELSE IF s[1] # t[1] THEN s[1] < t[1]
    ELSE LexLess(Tail(s), Tail(t))

\* re.split(r'[...]', text): the delimiters are a character class and are
\* consumed; empty pieces are kept.
RECURSIVE SplitFrom(_, _, _)
SplitFrom(s, i, piece) ==
    IF i > Len(s) THEN <<piece>>
    ELSE IF s[i] \in Delimiters THEN <<piece>> \o SplitFrom(s, i + 1, <<>>)
    ELSE SplitFrom(s, i + 1, Append(piece, s[i]))

re_split(s) == SplitFrom(s, 1, <<>>)

\* jieba.lcut(sentence): a list of non-empty tokens that concatenate to the
\* sentence; here the longest dictionary word at each position, else one
\* character.
RECURSIVE lcut(_, _)
lcut(sentence, dict) ==
    IF sentence = <<>> THEN <<>>
    ELSE LET n == Max({k \in 1..Len(sentence) :
                          k = 1 \/ SubSeq(sentence, 1, k) \in dict})
         IN  <<SubSeq(sentence, 1, n)>>
                 \o lcut(SubSeq(sentence, n + 1, Len(sentence)), dict)

RECURSIVE Concat(_)
Concat(window) ==
    IF window = <<>> THEN <<>> ELSE Head(window) \o Concat(Tail(window))

IsSubstring(v, s) ==
    \E i \in 1..(Len(s) + 1) :
        /\ i + Len(v) - 1 <= Len(s)
        /\ SubSeq(s, i, i + Len(v) - 1) = v

\* variation in <the raw sentence string>
in_string(variation, window) == IsSubstring(variation, Concat(window))

\* variation in window, window a list of tokens
in_window(variation, window) ==
    \E k \in DOMAIN window : window[k] = variation

\* all(variation in window for variation in variations)
find_characters_all(window, registry) ==
    {registry[i].name :
        i \in {e \in DOMAIN registry :
                 \A j \in DOMAIN registry[e].variations :
                     in_window(registry[e].variations[j], window)}}

\* any(variation in window for variation in variations), for each entry of
\* character_variations
find_characters_in_window(window, registry) ==
    {registry[i].name :
        i \in {e \in DOMAIN registry :
                 \E j \in DOMAIN registry[e].variations :
                     in_window(registry[e].variations[j], window)}}

\* tuple([character1, character2])
unsorted_pair(character1, character2) == <<character1, character2>>

\* tuple(sorted([character1, character2]))
sorted_pair(character1, character2) ==
    IF LexLess(character2, character1)
        THEN <<character2, character1>>
        ELSE <<character1, character2>>

\* for i < j in iteration order: <<order[i], order[j]>>, not sorted
combinations_loop(order) ==
    {<<order[p[1]], order[p[2]]>> :
        p \in {q \in (DOMAIN order) \X (DOMAIN order) : q[1] < q[2]}}

\* no character1 != character2 test
unfiltered_loop(order) ==
    {sorted_pair(order[p[1]], order[p[2]]) :
        p \in (DOMAIN order) \X (DOMAIN order)}

\* the double loop building sorted_pairs; order is the iteration order of the
\* set present_characters
pair_loop(order) ==
    {sorted_pair(order[p[1]], order[p[2]]) :
        p \in {q \in (DOMAIN order) \X (DOMAIN order) :
                 order[q[1]] # order[q[2]]}}

\* the iteration orders of a set
RECURSIVE Orders(_)
Orders(S) ==
    IF S = {} THEN {<<>>}
    ELSE UNION {{<<x>> \o o : o \in Orders(S \ {x})} : x \in S}

\* interactions.extend(sorted_pairs) at the level of the for loop
extend_dedented(list, present, pairs) == list \o pairs

\* if len(present_characters) > 1: ... interactions.extend(sorted_pairs)
extend(list, present, pairs) ==
    IF Cardinality(present) > 1 THEN list \o pairs ELSE list

CountKey(counts, key) ==
    IF \E k \in DOMAIN counts : counts[k].key = key
        THEN [k \in DOMAIN counts |->
                 IF counts[k].key = key
                    THEN [counts[k] EXCEPT !.count = @ + 1]
                    ELSE counts[k]]
        ELSE Append(counts, [key |-> key, count |-> 1])

RECURSIVE CountFrom(_, _, _)
CountFrom(list, i, counts) ==
    IF i > Len(list) THEN counts
    ELSE CountFrom(list, i + 1, CountKey(counts, list[i]))

RECURSIVE DistinctFrom(_, _, _)
DistinctFrom(list, i, counts) ==
    IF i > Len(list) THEN counts
    ELSE DistinctFrom(list, i + 1,
            IF \E k \in DOMAIN counts : counts[k].key = list[i]
               THEN counts
               ELSE Append(counts, [key |-> list[i], count |-> 1]))

\* counts of set(interactions)
CounterOfSet(list) == DistinctFrom(list, 1, <<>>)

\* counts[key] = 0 on the first occurrence, += 1 afterwards
RECURSIVE ZeroBasedFrom(_, _, _)
ZeroBasedFrom(list, i, counts) ==
    IF i > Len(list) THEN counts
    ELSE ZeroBasedFrom(list, i + 1,
            IF \E k \in DOMAIN counts : counts[k].key = list[i]
               THEN CountKey(counts, list[i])
               ELSE Append(counts, [key |-> list[i], count |-> 0]))

CounterZeroBased(list) == ZeroBasedFrom(list, 1, <<>>)

\* {key: len(list(group)) for key, group in groupby(interactions)}: the
\* length of the last run of each key
RECURSIVE GroupbyFrom(_, _, _)
GroupbyFrom(list, i, counts) ==
    IF i > Len(list) THEN counts
    ELSE GroupbyFrom(list, i + 1,
            IF i > 1 /\ list[i - 1] = list[i]
               THEN CountKey(counts, list[i])
               ELSE IF \E k \in DOMAIN counts : counts[k].key = list[i]
                       THEN [k \in DOMAIN counts |->
                               IF counts[k].key = list[i]
                                  THEN [counts[k] EXCEPT !.count = 1]
                                  ELSE counts[k]]
                       ELSE Append(counts, [key |-> list[i], count |-> 1]))

CounterGroupby(list) == GroupbyFrom(list, 1, <<>>)

\* Counter(interactions): a dict in order of first occurrence
Counter(list) == CountFrom(list, 1, <<>>)

\* str(weight)
RECURSIVE str(_)
str(n) ==
    IF n < 10 THEN <<48 + n>> ELSE Append(str(n \div 10), 48 + (n % 10))

Header == << <<83, 111, 117, 114, 99, 101>>,
             <<84, 97, 114, 103, 101, 116>>,
             <<87, 101, 105, 103, 104, 116>> >>

\* [source, target, weight] as the csv writer formats it
Row(entry) == <<entry.key[1], entry.key[2], str(entry.count)>>

\* for sentence in sentences: exhausted
loop_done_early(i, list) == i >= Len(list)

loop_done(i, list) == i > Len(list)

----------------------------------------------------------------------------
(* The script *)

Init ==
    /\ text \in Texts
    /\ character_variations \in Registries
    /\ pc = "split"
    /\ sentences = <<>>
    /\ idx = 1
    /\ present_characters = {}
    /\ sorted_pairs = {}
    /\ interactions = <<>>
    /\ interaction_counts = <<>>
    /\ csvfile = <<>>
    /\ run = 1
    /\ prev_rows = {}

\* sentences = re.split(...); interactions = []
Split ==
    /\ pc = "split"
    /\ sentences' = re_split(text)
    /\ interactions' = <<>>
    /\ idx' = 1
    /\ pc' = "loop"
    /\ UNCHANGED <<text, character_variations, present_characters,
                   sorted_pairs, interaction_counts, csvfile, run, prev_rows>>

\* one iteration of the for loop over sentences
ProcessSentence ==
    /\ pc = "loop"
    /\ ~loop_done(idx, sentences)
    /\ LET tokens == lcut(sentences[idx], jieba_dict)
           present == find_characters_in_window(tokens, character_variations)
       IN  /\ present_characters' = present
           /\ \E order \in Orders(present) :
                LET pairs == IF Cardinality(present) > 1
                                THEN pair_loop(order)
                                ELSE sorted_pairs
                IN  /\ sorted_pairs' = pairs
                    /\ \E pair_order \in Orders(pairs) :
                         interactions' = extend(interactions, present, pair_order)
    /\ idx' = idx + 1
    /\ UNCHANGED <<text, character_variations, pc, sentences,
                   interaction_counts, csvfile, run, prev_rows>>

\* interaction_counts = Counter(interactions)
Count ==
    /\ pc = "loop"
    /\ loop_done(idx, sentences)
    /\ interaction_counts' = Counter(interactions)
    /\ pc' = "open"
    /\ UNCHANGED <<text, character_variations, sentences, idx,
                   present_characters, sorted_pairs, interactions, csvfile,
                   run, prev_rows>>

\* csvwriter.writerow(['Source', 'Target', 'Weight'])
WriteHeader ==
    /\ pc = "open"
    /\ csvfile' = Append(csvfile, Header)
    /\ pc' = "rows"
    /\ UNCHANGED <<text, character_variations, sentences, idx,
                   present_characters, sorted_pairs, interactions,
                   interaction_counts, run, prev_rows>>

\* one iteration of the loop over interaction_counts.items()
WriteRow ==
    /\ pc = "rows"
    /\ Len(csvfile) <= Len(interaction_counts)
    /\ csvfile' = Append(csvfile, Row(interaction_counts[Len(csvfile)]))
    /\ UNCHANGED <<text, character_variations, pc, sentences, idx,
                   present_characters, sorted_pairs, interactions,
                   interaction_counts, run, prev_rows>>

\* the with block is left and the final message printed
Close ==
    /\ pc = "rows"
    /\ Len(csvfile) > Len(interaction_counts)
    /\ pc' = "done"
    /\ UNCHANGED <<text, character_variations, sentences, idx,
                   present_characters, sorted_pairs, interactions,
                   interaction_counts, csvfile, run, prev_rows>>

\* the script is executed again, in a new process, on the same input
Restart ==
    /\ pc = "done"
    /\ run < MaxRuns
    /\ run' = run + 1
    /\ prev_rows' = {csvfile[i] : i \in 2..Len(csvfile)}
    /\ pc' = "split"
    /\ sentences' = <<>>
    /\ idx' = 1
    /\ present_characters' = {}
    /\ sorted_pairs' = {}
    /\ interactions' = <<>>
    /\ interaction_counts' = <<>>
    /\ csvfile' = <<>>
    /\ UNCHANGED <<text, character_variations>>

Next ==
    \/ Split
    \/ ProcessSentence
    \/ Count
    \/ WriteHeader
    \/ WriteRow
    \/ Close
    \/ Restart

Spec == Init /\ [][Next]_vars

\* where an execution of the script is
position == <<pc, idx, csvfile>>

\* the for loop over sentences moves on: the guard of ProcessSentence and its
\* effect on the position
LoopAdvance ==
    /\ pc = "loop"
    /\ ~loop_done(idx, sentences)
    /\ idx' = idx + 1
    /\ UNCHANGED <<pc, csvfile>>

\* a step of one execution of the script
RunStep == Split \/ LoopAdvance \/ Count \/ WriteHeader \/ WriteRow \/ Close

\* The script is one thread whose statements wait on nothing: a started
\* execution keeps taking steps.  Executing the script again is not forced.
FairSpec == Spec /\ WF_position(RunStep)

----------------------------------------------------------------------------
(* Auxiliary definitions of the properties *)

\* the characters judged present in a sentence
PresentIn(sentence) ==
    find_characters_in_window(lcut(sentence, jieba_dict), character_variations)

\* the number of sentences in which both a and b are judged present
CoCount(a, b) ==
    Cardinality({i \in DOMAIN sentences : {a, b} \subseteq PresentIn(sentences[i])})

\* the 2-element combinations of a set of names, each in sorted order
Combinations2(S) == {p \in S \X S : LexLess(p[1], p[2])}

EdgeRowIndices == 2..Len(csvfile)

EdgeRows(file) == {file[i] : i \in 2..Len(file)}

IsDigits(s) == s # <<>> /\ \A i \in DOMAIN s : s[i] \in 48..57

RECURSIVE ParseInt(_)
ParseInt(s) ==
    IF s = <<>> THEN 0
    ELSE 10 * ParseInt(SubSeq(s, 1, Len(s) - 1)) + (s[Len(s)] - 48)

RECURSIVE SumOver(_, _)
SumOver(f, S) ==
    IF S = {} THEN 0
    ELSE LET x == CHOOSE y \in S : TRUE IN f[x] + SumOver(f, S \ {x})

Occurrences(list, x) == Cardinality({i \in DOMAIN list : list[i] = x})

Finalized == pc \in {"open", "rows", "done"}

\* a step of the for loop over sentences
LoopStep == pc = "loop" /\ idx <= Len(sentences) /\ idx' = idx + 1

----------------------------------------------------------------------------
(* C1 *)

\* C1: when the run is over, for every unordered pair of distinct characters
\* the number n of sentences in which both are judged present decides the
\* output: n = 0 gives no row for the pair, n > 0 gives exactly one row, whose
\* weight is n; and every row is about a pair of registered characters.
C1_WeightIsSentenceCount ==
    pc = "done" =>
        /\ \A i \in EdgeRowIndices :
              /\ csvfile[i][1] \in Names(character_variations)
              /\ csvfile[i][2] \in Names(character_variations)
        /\ \A a, b \in Names(character_variations) :
              a # b =>
                LET n == CoCount(a, b)
                    rows == {i \in EdgeRowIndices :
                                {csvfile[i][1], csvfile[i][2]} = {a, b}}
                IN  IF n = 0 THEN rows = {}
                    ELSE /\ Cardinality(rows) = 1
                         /\ \A i \in rows : /\ IsDigits(csvfile[i][3])
                                            /\ ParseInt(csvfile[i][3]) = n

\* a finished run with a pair of weight 2 and a pair that never co-occurs
C1_Witness ==
    /\ pc = "done"
    /\ Len(csvfile) = 2
    /\ \E a, b, c \in Names(character_variations) :
          /\ Cardinality({a, b, c}) = 3
          /\ CoCount(a, b) = 2
          /\ CoCount(a, c) = 0

----------------------------------------------------------------------------
(* C2 *)

\* C2: no row written after the header has Source = Target, and the weight of
\* every such row is the decimal form of an integer >= 1; no key of the list
\* or of the table pairs a character with itself, and every count is >= 1.
C2_NoSelfLoop ==
    /\ \A i \in DOMAIN interactions : interactions[i][1] # interactions[i][2]
    /\ \A i \in DOMAIN interaction_counts :
          /\ interaction_counts[i].key[1] # interaction_counts[i].key[2]
          /\ interaction_counts[i].count >= 1
    /\ \A i \in EdgeRowIndices :
          /\ csvfile[i][1] # csvfile[i][2]
          /\ IsDigits(csvfile[i][3])
          /\ ParseInt(csvfile[i][3]) >= 1

\* three edge rows have been written, one of them of weight 2
C2_Witness ==
    /\ Len(csvfile) = 4
    /\ \E i \in EdgeRowIndices : ParseInt(csvfile[i][3]) = 2

----------------------------------------------------------------------------
(* C3 *)

\* every key of the list and of the table is in sorted order, so that no key
\* is the reverse of another
C3_Canonical ==
    /\ \A i \in DOMAIN interactions :
          LexLess(interactions[i][1], interactions[i][2])
    /\ \A i, j \in DOMAIN interaction_counts :
          interaction_counts[i].key
             # <<interaction_counts[j].key[2], interaction_counts[j].key[1]>>

\* a step of the sentence loop adds the pair {a,b} of present characters once,
\* counting both orders of the key
C3_OneIncrement ==
    LoopStep =>
        \A a, b \in PresentIn(sentences[idx]) :
            a # b =>
                Occurrences(interactions', <<a, b>>)
                    + Occurrences(interactions', <<b, a>>)
                = Occurrences(interactions, <<a, b>>)
                    + Occurrences(interactions, <<b, a>>) + 1

\* C3: for two characters present in the same sentence the loop records
\* exactly one increment for the pair, under the sorted key, whatever the
\* iteration order; the table never holds a key and its reverse.
C3_Symmetry == [](C3_Canonical) /\ [][C3_OneIncrement]_vars

\* the table holds two keys after a sentence with three present characters
C3_Witness ==
    /\ pc = "open"
    /\ Cardinality(present_characters) = 3
    /\ Len(interaction_counts) = 3
    /\ \E i \in DOMAIN interaction_counts : interaction_counts[i].count = 2

----------------------------------------------------------------------------
(* C4 *)

CanonicalOrder(S) == CHOOSE o \in Orders(S) : TRUE

\* the list the sentence loop builds over a sequence of sentences
RECURSIVE InteractionsOf(_)
InteractionsOf(sents) ==
    IF sents = <<>> THEN <<>>
    ELSE LET present == PresentIn(sents[Len(sents)])
             pairs == IF Cardinality(present) > 1
                         THEN pair_loop(CanonicalOrder(present))
                         ELSE {}
         IN  extend(InteractionsOf(SubSeq(sents, 1, Len(sents) - 1)),
                    present, CanonicalOrder(pairs))

\* a table as a set of <<key, count>>
AsMap(counts) == {<<counts[i].key, counts[i].count>> : i \in DOMAIN counts}

TableOf(sents) == AsMap(Counter(InteractionsOf(sents)))

ValueAt(m, k) ==
    IF \E e \in m : e[1] = k THEN (CHOOSE e \in m : e[1] = k)[2] ELSE 0

AddMaps(m1, m2) ==
    {<<k, ValueAt(m1, k) + ValueAt(m2, k)>> : k \in {e[1] : e \in m1 \cup m2}}

\* the number of (sentence, unordered pair) co-occurrences
CoOccurrences ==
    SumOver([i \in DOMAIN sentences |->
                Cardinality(Combinations2(PresentIn(sentences[i])))],
            DOMAIN sentences)

\* C4: when the run is over, the weights of the rows sum to the number of
\* (sentence, unordered pair) co-occurrences, and for every split of the
\* sentences into a first and a second part, the pairwise sum of the tables of
\* the two parts is the table of the whole.
C4_Additivity ==
    pc = "done" =>
        /\ SumOver([i \in EdgeRowIndices |-> ParseInt(csvfile[i][3])],
                   EdgeRowIndices) = CoOccurrences
        /\ \A k \in 0..Len(sentences) :
              AddMaps(TableOf(SubSeq(sentences, 1, k)),
                      TableOf(SubSeq(sentences, k + 1, Len(sentences))))
                 = AsMap(interaction_counts)

\* a finished run of three sentences where a pair occurs in the first and in
\* the last
C4_Witness ==
    /\ pc = "done"
    /\ Len(sentences) = 3
    /\ Cardinality(PresentIn(sentences[1])) >= 2
    /\ Cardinality(PresentIn(sentences[3])) >= 2
    /\ \E i \in DOMAIN interaction_counts : interaction_counts[i].count = 2

----------------------------------------------------------------------------
(* C5 *)

\* C5: a second execution on the same text and registry writes the same set
\* of rows as the one before it, whatever the iteration orders of the two.
C5_Determinism ==
    (pc = "done" /\ run > 1) => EdgeRows(csvfile) = prev_rows

\* a second run has finished and wrote three rows, the first two not in
\* sorted order
C5_Witness ==
    /\ pc = "done"
    /\ run > 1
    /\ Len(csvfile) = 4
    /\ LexLess(csvfile[3][1] \o csvfile[3][2], csvfile[2][1] \o csvfile[2][2])

----------------------------------------------------------------------------
(* C6 *)

\* C6: a step of the sentence loop on a sentence with fewer than two present
\* characters leaves the list of interactions as it was.
C6_NoInteraction ==
    [][(LoopStep /\ Cardinality(PresentIn(sentences[idx])) < 2)
          => interactions' = interactions]_vars

\* after a sentence with two present characters, an empty sentence and a
\* sentence with one present character have been passed
C6_Witness ==
    /\ pc = "loop"
    /\ idx = 4
    /\ Cardinality(PresentIn(sentences[1])) = 2
    /\ sentences[2] = <<>>
    /\ Cardinality(PresentIn(sentences[3])) = 1
    /\ Len(interactions) = 1

----------------------------------------------------------------------------
(* C7 *)

\* no non-empty alias of the registry occurs in the text
NoAliasOccurs ==
    \A e \in DOMAIN character_variations :
        \A j \in DOMAIN character_variations[e].variations :
            LET v == character_variations[e].variations[j]
            IN  v # <<>> => ~IsSubstring(v, text)

\* C7: when the run is over and no alias of the registry occurs in the text
\* (an empty registry has none), only the header row has been written.
C7_NoMatchEmpty ==
    (pc = "done" /\ NoAliasOccurs) => csvfile = <<Header>>

\* a finished run on a text of two sentences, one of two characters, with a
\* registry none of whose aliases occurs
C7_Witness ==
    /\ pc = "done"
    /\ NoAliasOccurs
    /\ character_variations = RegDegenerate
    /\ Len(sentences) = 2
    /\ \E i \in DOMAIN sentences : Len(sentences[i]) = 2

----------------------------------------------------------------------------
(* C8 *)

\* the characters all of whose aliases are empty strings
NeverPresent ==
    {character_variations[e].name :
        e \in {d \in DOMAIN character_variations :
                 \A j \in DOMAIN character_variations[d].variations :
                     character_variations[d].variations[j] = <<>>}}

\* C8: a character whose aliases are all empty strings, or that has none, is
\* in no present-character set, in no interaction and in no row.
C8_EmptyAliasNeverMatches ==
    \A c \in NeverPresent :
        /\ c \notin present_characters
        /\ \A i \in DOMAIN interactions :
              c # interactions[i][1] /\ c # interactions[i][2]
        /\ \A i \in EdgeRowIndices : c # csvfile[i][1] /\ c # csvfile[i][2]

\* a finished run that wrote an edge with a registry holding a character with
\* only empty aliases and one with no alias
C8_Witness ==
    /\ pc = "done"
    /\ Cardinality(NeverPresent) = 2
    /\ Len(csvfile) = 2
    /\ Len(sentences) >= 2

----------------------------------------------------------------------------
(* C9 *)

\* nothing is counted or written before the last sentence has been processed,
\* and the header is the first row and no other
C9_Phases ==
    /\ pc = "split" =>
          interactions = <<>> /\ interaction_counts = <<>> /\ csvfile = <<>>
    /\ pc \in {"split", "loop"} => interaction_counts = <<>> /\ csvfile = <<>>
    /\ pc = "loop" => idx \in 1..(Len(sentences) + 1)
    /\ Finalized =>
          /\ idx = Len(sentences) + 1
          /\ interaction_counts = Counter(interactions)
    /\ pc = "open" => csvfile = <<>>
    /\ pc \in {"rows", "done"} =>
          /\ csvfile # <<>>
          /\ csvfile[1] = Header
          /\ \A i \in EdgeRowIndices : csvfile[i] # Header
    /\ pc = "done" => Len(csvfile) = Len(interaction_counts) + 1

\* the loop position moves by one sentence at a time, and what has been
\* counted or written is not changed afterwards
C9_Order ==
    /\ idx' # idx =>
          \/ LoopStep /\ pc' = "loop"
          \/ pc = "done" /\ pc' = "split" /\ idx' = 1
    /\ (Finalized /\ pc' # "split") =>
          /\ interactions' = interactions
          /\ pc # "open" => interaction_counts' = interaction_counts
          /\ Len(csvfile') \in {Len(csvfile), Len(csvfile) + 1}
          /\ \A i \in DOMAIN csvfile : csvfile'[i] = csvfile[i]

\* C9: the table starts empty, the sentences are processed in order and once
\* each, the counts are made after the last sentence, no row is written before
\* that, the header is written once and first, and every run ends.
C9_Lifecycle ==
    /\ [](C9_Phases)
    /\ [][C9_Order]_vars
    /\ (pc = "split") ~> (pc = "done")

\* a finished run over three sentences that wrote two edge rows
C9_Witness ==
    /\ pc = "done"
    /\ Len(sentences) = 3
    /\ Len(csvfile) = 3

----------------------------------------------------------------------------
(* C10 *)

\* for every set of registered characters and every iteration order of it the
\* double loop gives the 2-element combinations of the set
C10_LoopIsCombinations ==
    \A S \in SUBSET Names(character_variations) :
        \A order \in Orders(S) :
            /\ pair_loop(order) = Combinations2(S)
            /\ 2 * Cardinality(pair_loop(order))
                  = Cardinality(S) * (Cardinality(S) - 1)

\* a step of the sentence loop on k >= 2 present characters appends
\* k(k-1)/2 keys, all different
C10_Increments ==
    LoopStep =>
        LET k == Cardinality(PresentIn(sentences[idx]))
            added == SubSeq(interactions', Len(interactions) + 1,
                            Len(interactions'))
        IN  k > 1 =>
              /\ sorted_pairs' = Combinations2(present_characters')
              /\ 2 * Len(added) = k * (k - 1)
              /\ {added[i] : i \in DOMAIN added} = sorted_pairs'
              /\ Cardinality(sorted_pairs') = Len(added)

\* C10: the pair set of the double loop (product, a != b, sorted, in a set) is
\* the set of 2-element combinations of the present characters, for every
\* iteration order, and a sentence with k present characters contributes
\* k(k-1)/2 increments, each to a different pair.
C10_Combinations ==
    /\ [](pc = "split" => C10_LoopIsCombinations)
    /\ [][C10_Increments]_vars

\* a sentence with three present characters has just contributed three pairs
C10_Witness ==
    /\ pc = "loop"
    /\ idx > 1
    /\ Cardinality(present_characters) = 3
    /\ Cardinality(sorted_pairs) = 3
    /\ Len(interactions) = 3

====
